---- MODULE Spec2Model ----
(***************************************************************************)
(* Maintenance scripts of cold-email-dashboard.                            *)
(*                                                                         *)
(*   scripts/convert-database-types.py  rewrites the circular Insert and   *)
(*       Update declarations of lib/database.types.ts into flat literals   *)
(*       and adds the `Relationships: []` markers;                         *)
(*   scripts/strip_code_blocks.py       removes the typed code fences of a *)
(*       markdown document.                                                *)
(*                                                                         *)
(* Text is modelled at token level: a type expression, a field line and a  *)
(* markdown line are sequences of tokens, a declaration block is a record  *)
(* of the parts its regular expression captures.                           *)
(***************************************************************************)
EXTENDS Naturals, Sequences, FiniteSets

VARIABLES
    file,              \* lib/database.types.ts on disk
    content,           \* main(): content
    original_content,  \* main(): original_content
    prev_content,      \* main(): prev_content of the relationships loop
    row_fields,        \* main(): row_fields, table name -> ordered fields
    pc,                \* position of main()
    run,               \* how many times the script has been started
    writes,            \* how many times the script has written the file
    passes,            \* iterations of the relationships loop in this run
    codex,             \* docs/THE_SOVEREIGN_CODEX.md on disk
    lines,             \* strip_code_blocks: lines
    pos,               \* strip_code_blocks: index of the next line of the loop
    result,            \* strip_code_blocks: result
    kept,              \* indices (in lines) of the lines appended to result
    in_code_block,     \* strip_code_blocks: in_code_block
    skip_block,        \* strip_code_blocks: skip_block
    code_buffer,       \* strip_code_blocks: code_buffer
    buffered,          \* indices (in lines) of the lines of code_buffer
    spc,               \* position of strip_code_blocks
    templates,         \* replace-cred-ids: the template files on disk
    fidx,              \* replace-cred-ids: index of the file of the loop
    total_replacements,\* replace-cred-ids: total_replacements
    written,           \* replace-cred-ids: indices of the files opened for writing
    cpc                \* position of replace-cred-ids

vars == <<file, content, original_content, prev_content, row_fields, pc, run, writes,
          passes, codex, lines, pos, result, kept, in_code_block, skip_block,
          code_buffer, buffered, spc, templates, fidx, total_replacements, written,
          cpc>>

dbvars == <<file, content, original_content, prev_content, row_fields, pc, run,
            writes, passes>>

mdvars == <<codex, lines, pos, result, kept, in_code_block, skip_block,
            code_buffer, buffered, spc>>

crvars == <<templates, fidx, total_replacements, written, cpc>>

---------------------------------------------------------------------------
(* Bounds of the model *)

MaxFields == 2      \* field lines in a Row block
MaxOmit == 2        \* quoted names in an Omit<...> list
MaxOver == 1        \* lines in the `& { ... }` literal
MaxTables == 2      \* tables in the Tables block
MaxRuns == 2        \* consecutive runs of the script
MaxLines == 4       \* lines of the markdown document
MaxFiles == 2       \* files of the template directories
MaxBody == 1        \* string values between the braces of a template file

SeqsUpTo(S, n) == UNION {[1..k -> S] : k \in 0..n}

Range(s) == {s[i] : i \in DOMAIN s}

---------------------------------------------------------------------------
(* Token-level string helpers *)

\* str.rstrip(ch)
RECURSIVE RStrip(_, _)
RStrip(s, ch) ==
    IF s # <<>> /\ s[Len(s)] = ch THEN RStrip(SubSeq(s, 1, Len(s) - 1), ch) ELSE s

\* index of the first occurrence of tok in s, 0 when absent
RECURSIVE IndexFrom(_, _, _)
IndexFrom(s, tok, i) ==
    IF i > Len(s) THEN 0
    ELSE IF s[i] = tok THEN i ELSE IndexFrom(s, tok, i + 1)

IndexOf(s, tok) == IndexFrom(s, tok, 1)

\* str.lower() on one token
LowerTok(tok) ==
    CASE tok = "NULL" -> "null"
      [] tok = "Null" -> "null"
      [] tok = "SQL" -> "sql"
      [] tok = "Bash" -> "bash"
      [] OTHER -> tok

Lower(s) == [i \in DOMAIN s |-> LowerTok(s[i])]

\* variant: 'null' in typ, without lower()
HasNullCaseSensitive(typ) == \E i \in DOMAIN typ : typ[i] = "null"

\* 'null' in typ.lower()
HasNull(typ) == \E i \in DOMAIN typ : Lower(typ)[i] = "null"

---------------------------------------------------------------------------
(* Row extraction: row_pattern and field_pattern *)

\* field_pattern (\w+):\s*([^\n;]+) on one line of the Row block: the line
\* matches when a word is directly followed by a colon and a non-empty type.
FieldMatches(line) ==
    /\ Len(line) >= 3
    /\ line[2] = ":"
    /\ line[1] \notin {":", ";"}
    /\ line[3] # ";"

\* group(2): up to the first ';' or the end of the line, rstrip(';')
FieldType(line) ==
    LET rest == SubSeq(line, 3, Len(line))
        semi == IndexOf(rest, ";")
        upto == IF semi = 0 THEN rest ELSE SubSeq(rest, 1, semi - 1)
    IN  RStrip(upto, ";")

\* fields[name] = typ on an insertion-ordered dict
DictSet(d, name, typ) ==
    IF \E i \in DOMAIN d : d[i].name = name
    THEN [i \in DOMAIN d |->
            IF d[i].name = name THEN [name |-> name, typ |-> typ] ELSE d[i]]
    ELSE Append(d, [name |-> name, typ |-> typ])

DictKeys(d) == [i \in DOMAIN d |-> d[i].name]

RECURSIVE ParseFieldsFrom(_, _)
ParseFieldsFrom(decl, fields) ==
    IF decl = <<>> THEN fields
    ELSE LET line == Head(decl)
             next == IF FieldMatches(line) /\ FieldType(line) # <<>>
                     THEN DictSet(fields, line[1], FieldType(line))
                     ELSE fields
         IN  ParseFieldsFrom(Tail(decl), next)

\* the body of the loop over row_pattern.finditer: fields of one Row block
ParseFields(decl) == ParseFieldsFrom(decl, <<>>)

---------------------------------------------------------------------------
(* replace_insert and replace_update *)

\* variant: re.search instead of re.findall, only the first quoted name
OmitFieldsFirstOnly(omit_fields_str) ==
    IF omit_fields_str = <<>> THEN {} ELSE {omit_fields_str[1]}

\* set(re.findall(r"'(\w+)'", omit_fields_str))
OmitFields(omit_fields_str) == Range(omit_fields_str)

\* one line of the `& { ... }` literal: split(':', 1), rstrip('?') on the
\* name, rstrip(';').rstrip(',') on the type.  The key is kept as the token
\* sequence left of the colon.
OverrideName(line) == RStrip(SubSeq(line, 1, IndexOf(line, ":") - 1), "?")

OverrideType(line) ==
    RStrip(RStrip(SubSeq(line, IndexOf(line, ":") + 1, Len(line)), ";"), ",")

RECURSIVE ParseOverridesFrom(_, _)
ParseOverridesFrom(over, d) ==
    IF over = <<>> THEN d
    ELSE LET line == Head(over)
             next == IF IndexOf(line, ":") > 0
                     THEN DictSet(d, OverrideName(line), OverrideType(line))
                     ELSE d
         IN  ParseOverridesFrom(Tail(over), next)

\* optional_overrides of replace_insert
ParseOverrides(optional_fields_str) == ParseOverridesFrom(optional_fields_str, <<>>)

DictHas(d, key) == \E i \in DOMAIN d : d[i].name = key

DictGet(d, key) == d[CHOOSE i \in DOMAIN d : d[i].name = key].typ

OutLine(name, opt, typ) == [name |-> name, opt |-> opt, typ |-> typ]

\* variant: the override branch tested before the omit branch
InsertLineOverrideFirst(f, omit_fields, optional_overrides) ==
    IF DictHas(optional_overrides, <<f.name>>)
    THEN OutLine(f.name, TRUE, DictGet(optional_overrides, <<f.name>>))
    ELSE IF f.name \in omit_fields
    THEN OutLine(f.name, TRUE, f.typ)
    ELSE IF HasNull(f.typ)
    THEN OutLine(f.name, TRUE, f.typ)
    ELSE OutLine(f.name, FALSE, f.typ)

\* the if/elif chain of replace_insert for one Row field
InsertLine(f, omit_fields, optional_overrides) ==
    IF f.name \in omit_fields
    THEN OutLine(f.name, TRUE, f.typ)
    ELSE IF DictHas(optional_overrides, <<f.name>>)
    THEN OutLine(f.name, TRUE, DictGet(optional_overrides, <<f.name>>))
    ELSE IF HasNull(f.typ)
    THEN OutLine(f.name, TRUE, f.typ)
    ELSE OutLine(f.name, FALSE, f.typ)

\* variant: the omitted names that are no Row field get a line of their own
InsertLinesWithOmitted(fields, omit_fields, optional_overrides) ==
    LET extra == {n \in omit_fields : ~DictHas(fields, n)}
        RECURSIVE Lines(_)
        Lines(S) == IF S = {} THEN <<>>
                    ELSE LET n == CHOOSE x \in S : TRUE
                         IN  <<OutLine(n, TRUE, <<"unknown">>)>> \o Lines(S \ {n})
    IN  [i \in DOMAIN fields |-> InsertLine(fields[i], omit_fields, optional_overrides)]
        \o Lines(extra)

\* insert_lines: one line per item of fields.items(), in dict order
InsertLines(fields, omit_fields, optional_overrides) ==
    [i \in DOMAIN fields |-> InsertLine(fields[i], omit_fields, optional_overrides)]

FlatBlock(kind, ls) ==
    [kind |-> kind, table |-> "", omit |-> <<>>, over |-> <<>>, lines |-> ls]

\* replace_insert(match): match is the circular Insert declaration
replace_insert(match, rf) ==
    IF match.table \notin DOMAIN rf
    THEN match
    ELSE FlatBlock("flat", InsertLines(rf[match.table], OmitFields(match.omit),
                                       ParseOverrides(match.over)))

\* variant: the nullability rule of the Insert type applied to the Update type
UpdateLineNullable(f) == OutLine(f.name, HasNull(f.typ), f.typ)

\* update_lines: every field optional
UpdateLine(f) == OutLine(f.name, TRUE, f.typ)

\* variant: update_lines.insert(0, ...) instead of append
UpdateLinesReversed(fields) ==
    [i \in DOMAIN fields |-> UpdateLine(fields[Len(fields) + 1 - i])]

UpdateLines(fields) == [i \in DOMAIN fields |-> UpdateLine(fields[i])]

\* variant: an unknown table gets an empty literal instead of the original text
replace_update_no_skip(match, rf) ==
    IF match.table \notin DOMAIN rf
    THEN FlatBlock("flat", <<>>)
    ELSE FlatBlock("flat", UpdateLines(rf[match.table]))

\* replace_update(match): match is the circular Update declaration
replace_update(match, rf) ==
    IF match.table \notin DOMAIN rf
    THEN match
    ELSE FlatBlock("flat", UpdateLines(rf[match.table]))

---------------------------------------------------------------------------
(* The document: the Tables block of one schema and what follows it *)

\* insert_pattern matches a declaration `Insert: Omit<...['Row'], ...> & { ... }`
InsertMatches(decl) == decl.kind = "Omit"

\* update_pattern matches a declaration `Update: Partial<...['Insert']>`
UpdateMatches(decl) == decl.kind = "Partial"

\* row_pattern matches `name: { Row: { [^}]+ } Insert:`: a Row block with a
\* nested object type does not match
RowMatches(t) == t.row.flat

\* the loop over row_pattern.finditer(content): later tables of the same
\* name overwrite earlier ones
RECURSIVE CollectRows(_, _)
CollectRows(tables, rf) ==
    IF tables = <<>> THEN rf
    ELSE LET t == Head(tables)
             next == IF RowMatches(t)
                     THEN [n \in DOMAIN rf \cup {t.name} |->
                             IF n = t.name THEN ParseFields(t.row.decl) ELSE rf[n]]
                     ELSE rf
         IN  CollectRows(Tail(tables), next)

EmptyMap == [n \in {} |-> <<>>]

\* insert_pattern.sub(replace_insert, content)
SubInsert(doc, rf) ==
    [doc EXCEPT !.tables = [i \in DOMAIN doc.tables |->
        IF InsertMatches(doc.tables[i].insert)
        THEN [doc.tables[i] EXCEPT !.insert = replace_insert(@, rf)]
        ELSE doc.tables[i]]]

\* update_pattern.sub(replace_update, content)
SubUpdate(doc, rf) ==
    [doc EXCEPT !.tables = [i \in DOMAIN doc.tables |->
        IF UpdateMatches(doc.tables[i].update)
        THEN [doc.tables[i] EXCEPT !.update = replace_update(@, rf)]
        ELSE doc.tables[i]]]

\* variant: the pattern also accepts marker lines before the closing brace
FlatUpdateAnyMarkers(t) == t.update.kind = "flat"

\* `Update: \{[^}]+\}` directly followed by the closing brace of the table;
\* rels counts the `Relationships: []` lines between the two
FlatUpdateThenClose(t) == t.update.kind = "flat" /\ t.rels = 0

\* variant: the pattern still matches a block that already has its marker
RelationshipsMatchesAfterMarker(doc, i) ==
    /\ doc.tables[i].update.kind = "flat"
    /\ i < Len(doc.tables)

\* relationships_pattern: ... then the name of the next table
RelationshipsMatches(doc, i) ==
    /\ FlatUpdateThenClose(doc.tables[i])
    /\ i < Len(doc.tables)

\* last_table_pattern: ... then the close of Tables, then Functions: or Views:
LastTableMatches(doc, i) ==
    /\ FlatUpdateThenClose(doc.tables[i])
    /\ i = Len(doc.tables)
    /\ doc.next \in {"Functions:", "Views:"}

\* relationships_pattern.sub(add_relationships, content)
SubRelationships(doc) ==
    [doc EXCEPT !.tables = [i \in DOMAIN doc.tables |->
        IF RelationshipsMatches(doc, i)
        THEN [doc.tables[i] EXCEPT !.rels = @ + 1]
        ELSE doc.tables[i]]]

\* last_table_pattern.sub(add_relationships_last, content)
SubLastTable(doc) ==
    [doc EXCEPT !.tables = [i \in DOMAIN doc.tables |->
        IF LastTableMatches(doc, i)
        THEN [doc.tables[i] EXCEPT !.rels = @ + 1]
        ELSE doc.tables[i]]]

---------------------------------------------------------------------------
(* Input documents *)

TableNames == {"campaigns", "leads"}

\* what follows the closing brace of the Tables block
Followers == {"Functions:", "Views:", "Enums:"}

FieldNames == {"id", "name"}

RowTypes == {<<"string">>, <<"string", "|", "null">>, <<"Json", "|", "NULL">>}

\* the lines a Row block is drawn from: `name: type;` and a blank line
RowLines == {<<n, ":">> \o t \o <<";">> : n \in FieldNames, t \in RowTypes} \cup {<<>>}

OverTypes == {<<"number", ";">>, <<"string", "|", "null", ",">>}

\* the lines of an `& { ... }` literal: `name?: type;`
OverLines == {<<n, "?", ":">> \o t : n \in FieldNames, t \in OverTypes}

CircInsert(table, omit, over) ==
    [kind |-> "Omit", table |-> table, omit |-> omit, over |-> over, lines |-> <<>>]

CircUpdate(table) ==
    [kind |-> "Partial", table |-> table, omit |-> <<>>, over |-> <<>>, lines |-> <<>>]

\* the declarations of the two tables of the structural documents
RowDeclOf(name) ==
    IF name = "campaigns"
    THEN << <<"id", ":", "string", ";">>,
            <<"name", ":", "string", ";">>,
            <<"created_at", ":", "string", "|", "null">> >>
    ELSE << <<"id", ":", "string">>,
            <<"email", ":", "string", "|", "NULL", ";">> >>

OmitOf(name) == IF name = "campaigns" THEN <<"id">> ELSE <<"created_at", "id">>

OverOf(name) ==
    IF name = "campaigns" THEN << <<"id", "?", ":", "string", ";">> >> ELSE <<>>

\* a table block: circular as written by hand, or flat as the tool leaves it
TableOf(name, rowflat, circ, rel) ==
    LET fields == ParseFields(RowDeclOf(name))
    IN  [name |-> name,
         row |-> [flat |-> rowflat, decl |-> RowDeclOf(name)],
         insert |-> IF circ THEN CircInsert(name, OmitOf(name), OverOf(name))
                    ELSE FlatBlock("flat", InsertLines(fields, OmitFields(OmitOf(name)),
                                                       ParseOverrides(OverOf(name)))),
         update |-> IF circ THEN CircUpdate(name)
                    ELSE FlatBlock("flat", UpdateLines(fields)),
         rels |-> IF rel THEN 1 ELSE 0]

TableShapes ==
    {TableOf(n, rf, c, r) : n \in TableNames, rf \in BOOLEAN, c \in BOOLEAN, r \in BOOLEAN}

Docs ==
    {[tables |-> ts, next |-> nx] :
        ts \in SeqsUpTo(TableShapes, MaxTables) \ {<<>>}, nx \in Followers}

\* one circular table with every Row block, Omit list and literal in the bounds
SynthDocs ==
    {[tables |-> << [name |-> "campaigns",
                     row |-> [flat |-> TRUE, decl |-> d],
                     insert |-> CircInsert("campaigns", o, v),
                     update |-> CircUpdate("campaigns"),
                     rels |-> 0] >>,
      next |-> "Views:"] :
        d \in SeqsUpTo(RowLines, MaxFields),
        o \in SeqsUpTo(FieldNames, MaxOmit),
        v \in SeqsUpTo(OverLines, MaxOver)}

\* the empty string
NoDoc == [tables |-> <<>>, next |-> ""]

---------------------------------------------------------------------------
(* convert-database-types.py: main() *)

DbIdle ==
    /\ content = NoDoc
    /\ original_content = NoDoc
    /\ prev_content = NoDoc
    /\ row_fields = EmptyMap
    /\ pc = "idle"
    /\ run = 0
    /\ writes = 0
    /\ passes = 0

\* with open(...) as f: content = f.read(); original_content = content
ReadFile ==
    /\ pc \in {"idle", "done"}
    /\ run < MaxRuns
    /\ run' = run + 1
    /\ content' = file
    /\ original_content' = file
    /\ prev_content' = NoDoc
    /\ row_fields' = EmptyMap
    /\ passes' = 0
    /\ pc' = "rows"
    /\ UNCHANGED <<file, writes, mdvars, crvars>>

\* first pass: collect all Row definitions
ParseRows ==
    /\ pc = "rows"
    /\ row_fields' = CollectRows(content.tables, EmptyMap)
    /\ pc' = "insert"
    /\ UNCHANGED <<file, content, original_content, prev_content, run, writes,
                   passes, mdvars, crvars>>

\* content = insert_pattern.sub(replace_insert, content)
InsertPass ==
    /\ pc = "insert"
    /\ content' = SubInsert(content, row_fields)
    /\ pc' = "update"
    /\ UNCHANGED <<file, original_content, prev_content, row_fields, run, writes,
                   passes, mdvars, crvars>>

\* content = update_pattern.sub(replace_update, content); prev_content = ""
UpdatePass ==
    /\ pc = "update"
    /\ content' = SubUpdate(content, row_fields)
    /\ prev_content' = NoDoc
    /\ passes' = 0
    /\ pc' = "rel"
    /\ UNCHANGED <<file, original_content, row_fields, run, writes, mdvars, crvars>>

\* one iteration of `while prev_content != content`
RelPass ==
    /\ pc = "rel"
    /\ prev_content # content
    /\ prev_content' = content
    /\ content' = SubRelationships(content)
    /\ passes' = passes + 1
    /\ UNCHANGED <<file, original_content, row_fields, pc, run, writes, mdvars, crvars>>

\* the loop exits; content = last_table_pattern.sub(add_relationships_last, content)
LastPass ==
    /\ pc = "rel"
    /\ prev_content = content
    /\ content' = SubLastTable(content)
    /\ pc' = "write"
    /\ UNCHANGED <<file, original_content, prev_content, row_fields, run, writes,
                   passes, mdvars, crvars>>

\* if content != original_content: write the file
WriteFile ==
    /\ pc = "write"
    /\ content # original_content
    /\ file' = content
    /\ writes' = writes + 1
    /\ pc' = "done"
    /\ UNCHANGED <<content, original_content, prev_content, row_fields, run,
                   passes, mdvars, crvars>>

\* else: "No changes made"
NoChange ==
    /\ pc = "write"
    /\ content = original_content
    /\ pc' = "done"
    /\ UNCHANGED <<file, content, original_content, prev_content, row_fields, run, writes,
                   passes, mdvars, crvars>>

---------------------------------------------------------------------------
(* strip_code_blocks.py *)

remove_langs ==
    {<<"typescript">>, <<"sql">>, <<"bash">>, <<"json">>, <<"env">>,
     <<"javascript">>, <<"tsx">>, <<"ts">>, <<"js">>, <<"sh">>}

RECURSIVE LStrip(_, _)
LStrip(s, ch) == IF s # <<>> /\ s[1] = ch THEN LStrip(Tail(s), ch) ELSE s

\* str.strip(): leading and trailing blanks
Strip(s) == RStrip(LStrip(s, " "), " ")

\* stripped.startswith(FENCE), FENCE being the token of three backticks
IsFence(stripped) == stripped # <<>> /\ stripped[1] = "FENCE"

\* variant: the tag compared without lower()
LangNoLower(stripped) == Strip(Tail(stripped))

\* lang = stripped[3:].strip().lower()
Lang(stripped) == Lower(Strip(Tail(stripped)))

\* the lines of the markdown document
MdLines ==
    { <<"text">>,
      <<" ", "FENCE", " ">>,
      <<"FENCE", "sql">>,
      <<"FENCE", " ", "Bash", " ">>,
      <<"FENCE", "mermaid">> }

MdDocs == SeqsUpTo(MdLines, MaxLines)

MdIdle ==
    /\ lines = <<>>
    /\ pos = 0
    /\ result = <<>>
    /\ kept = <<>>
    /\ in_code_block = FALSE
    /\ skip_block = FALSE
    /\ code_buffer = <<>>
    /\ buffered = <<>>
    /\ spc = "idle"

\* lines = f.readlines() and the initialisation of the loop
ReadLines ==
    /\ spc = "idle"
    /\ lines' = codex
    /\ pos' = 1
    /\ result' = <<>>
    /\ kept' = <<>>
    /\ in_code_block' = FALSE
    /\ skip_block' = FALSE
    /\ code_buffer' = <<>>
    /\ buffered' = <<>>
    /\ spc' = "loop"
    /\ UNCHANGED <<codex, dbvars, crvars>>

InLoop == spc = "loop" /\ pos <= Len(lines)

\* if not in_code_block and stripped starts with three backticks
OpenFence ==
    /\ InLoop
    /\ ~in_code_block
    /\ IsFence(Strip(lines[pos]))
    /\ in_code_block' = TRUE
    /\ skip_block' = (Lang(Strip(lines[pos])) \in remove_langs)
    /\ code_buffer' = <<lines[pos]>>
    /\ buffered' = <<pos>>
    /\ pos' = pos + 1
    /\ UNCHANGED <<codex, lines, result, kept, spc, dbvars, crvars>>

\* if in_code_block and stripped is exactly three backticks
CloseFence ==
    /\ InLoop
    /\ in_code_block
    /\ Strip(lines[pos]) = <<"FENCE">>
    /\ IF ~skip_block
       THEN /\ result' = result \o Append(code_buffer, lines[pos])
            /\ kept' = kept \o Append(buffered, pos)
       ELSE UNCHANGED <<result, kept>>
    /\ in_code_block' = FALSE
    /\ skip_block' = FALSE
    /\ code_buffer' = <<>>
    /\ buffered' = <<>>
    /\ pos' = pos + 1
    /\ UNCHANGED <<codex, lines, spc, dbvars, crvars>>

\* if in_code_block: code_buffer.append(line)
BufferLine ==
    /\ InLoop
    /\ in_code_block
    /\ Strip(lines[pos]) # <<"FENCE">>
    /\ code_buffer' = Append(code_buffer, lines[pos])
    /\ buffered' = Append(buffered, pos)
    /\ pos' = pos + 1
    /\ UNCHANGED <<codex, lines, result, kept, in_code_block, skip_block, spc, dbvars, crvars>>

\* result.append(line)
KeepLine ==
    /\ InLoop
    /\ ~in_code_block
    /\ ~IsFence(Strip(lines[pos]))
    /\ result' = Append(result, lines[pos])
    /\ kept' = Append(kept, pos)
    /\ pos' = pos + 1
    /\ UNCHANGED <<codex, lines, in_code_block, skip_block, code_buffer, buffered,
                   spc, dbvars, crvars>>

\* with open(INPUT, "w") as f: f.writelines(result)
WriteLines ==
    /\ spc = "loop"
    /\ pos > Len(lines)
    /\ codex' = result
    /\ spc' = "done"
    /\ UNCHANGED <<lines, pos, result, kept, in_code_block, skip_block, code_buffer,
                   buffered, dbvars, crvars>>

---------------------------------------------------------------------------
(* replace-cred-ids.py *)

\* CREDENTIAL_ID_MAP, in the order of its items()
CREDENTIAL_ID_MAP ==
    << [old_id |-> "kThf5Npwf1zJFn9l", placeholder |-> "YOUR_CREDENTIAL_GMAIL_ID"],
       [old_id |-> "tUD6GQ7CnHfvUM7k", placeholder |-> "YOUR_CREDENTIAL_GMAIL_ID"],
       [old_id |-> "zfHBUnz62UkbN9cm", placeholder |-> "YOUR_CREDENTIAL_GMAIL_ID"],
       [old_id |-> "QKb5WqKXZ29v15Qk", placeholder |-> "YOUR_CREDENTIAL_POSTGRES_ID"],
       [old_id |-> "2EUpgH0WFkM3Lr6E", placeholder |-> "YOUR_CREDENTIAL_GOOGLE_SHEETS_ID"],
       [old_id |-> "p8ESE0UMGdJsRvZv", placeholder |-> "YOUR_CREDENTIAL_GOOGLE_SHEETS_ID"],
       [old_id |-> "EzDErZcUtMKUzyRO", placeholder |-> "YOUR_CREDENTIAL_OPENAI_ID"],
       [old_id |-> "aoWKHXiRqhK3nMDW", placeholder |-> "YOUR_CREDENTIAL_ANTHROPIC_ID"],
       [old_id |-> "9z6Laho4Xwr3N9sS", placeholder |-> "YOUR_CREDENTIAL_GOOGLE_CSE_QUERY_ID"],
       [old_id |-> "6DunH8n5TZY3tjwT", placeholder |-> "YOUR_CREDENTIAL_GOOGLE_CSE_QUERY_ID"],
       [old_id |-> "uNNf74d1EVpcGBgo", placeholder |-> "YOUR_CREDENTIAL_GOOGLE_CSE_HEADER_ID"] >>

\* content.count(old_id)
Count(text, old_id) == Cardinality({k \in DOMAIN text : text[k] = old_id})

\* content.replace(old_id, placeholder)
Replace(text, old_id, placeholder) ==
    [k \in DOMAIN text |-> IF text[k] = old_id THEN placeholder ELSE text[k]]

\* the loop over CREDENTIAL_ID_MAP.items() from entry k on: the replaced
\* content and file_replacements
RECURSIVE ReplaceFrom(_, _, _)
ReplaceFrom(text, n, k) ==
    IF k > Len(CREDENTIAL_ID_MAP) THEN [content |-> text, file_replacements |-> n]
    ELSE LET e == CREDENTIAL_ID_MAP[k]
             count == Count(text, e.old_id)
         IN  IF count > 0
             THEN ReplaceFrom(Replace(text, e.old_id, e.placeholder), n + count, k + 1)
             ELSE ReplaceFrom(text, n, k + 1)

ReplaceIds(text) == ReplaceFrom(text, 0, 1)

\* json.loads(content) returns: the text is one object, an opening brace,
\* string values and the closing brace
JsonLoads(text) ==
    /\ Len(text) >= 2
    /\ text[1] = "{"
    /\ text[Len(text)] = "}"
    /\ \A k \in 2..(Len(text) - 1) : text[k] \notin {"{", "}"}

\* variant: the except branch without `continue`
SkipsWriteNever(text) == FALSE

\* try: json.loads(content) / except json.JSONDecodeError: ... continue
SkipsWrite(text) == ~JsonLoads(text)

\* the string values of the template files: two mapped IDs and another string
BodyTokens == {"kThf5Npwf1zJFn9l", "QKb5WqKXZ29v15Qk", "name"}

\* a template file: complete, or cut before its closing brace; and a file
\* of the directory whose name does not end in .json
TemplateFiles ==
    {[json |-> TRUE, data |-> <<"{">> \o b \o c] :
        b \in SeqsUpTo(BodyTokens, MaxBody), c \in {<<>>, <<"}">>}}
    \cup {[json |-> FALSE, data |-> <<"kThf5Npwf1zJFn9l">>]}

\* the sorted listings of the template directories that exist, in order
TemplateSets == SeqsUpTo(TemplateFiles, MaxFiles)

CrIdle ==
    /\ templates = <<>>
    /\ fidx = 1
    /\ total_replacements = 0
    /\ written = <<>>
    /\ cpc = "idle"

InFileLoop == cpc = "loop" /\ fidx <= Len(templates)

\* if not filename.endswith('.json'): continue
SkipFile ==
    /\ InFileLoop
    /\ ~templates[fidx].json
    /\ fidx' = fidx + 1
    /\ UNCHANGED <<templates, total_replacements, written, cpc, dbvars, mdvars>>

\* file_replacements is 0: nothing is validated or written
NoMappedId ==
    /\ InFileLoop
    /\ templates[fidx].json
    /\ ReplaceIds(templates[fidx].data).file_replacements = 0
    /\ fidx' = fidx + 1
    /\ UNCHANGED <<templates, total_replacements, written, cpc, dbvars, mdvars>>

\* json.loads raises: print the error and continue with the next file
InvalidJson ==
    /\ InFileLoop
    /\ templates[fidx].json
    /\ ReplaceIds(templates[fidx].data).file_replacements > 0
    /\ SkipsWrite(ReplaceIds(templates[fidx].data).content)
    /\ fidx' = fidx + 1
    /\ UNCHANGED <<templates, total_replacements, written, cpc, dbvars, mdvars>>

\* f.write(content); total_replacements += file_replacements
WriteTemplate ==
    /\ InFileLoop
    /\ templates[fidx].json
    /\ ReplaceIds(templates[fidx].data).file_replacements > 0
    /\ ~SkipsWrite(ReplaceIds(templates[fidx].data).content)
    /\ templates' = [templates EXCEPT ![fidx].data = ReplaceIds(@).content]
    /\ written' = Append(written, fidx)
    /\ total_replacements' =
          total_replacements + ReplaceIds(templates[fidx].data).file_replacements
    /\ fidx' = fidx + 1
    /\ UNCHANGED <<cpc, dbvars, mdvars>>

\* print(f'Total replacements: {total_replacements}')
Summary ==
    /\ cpc = "loop"
    /\ fidx > Len(templates)
    /\ cpc' = "done"
    /\ UNCHANGED <<templates, fidx, total_replacements, written, dbvars, mdvars>>

---------------------------------------------------------------------------
(* Specifications *)

\* convert-database-types.py run MaxRuns times on a document of table blocks
Init == file \in Docs /\ DbIdle /\ codex = <<>> /\ MdIdle /\ CrIdle

Next ==
    \/ ReadFile
    \/ ParseRows
    \/ InsertPass
    \/ UpdatePass
    \/ RelPass
    \/ LastPass
    \/ WriteFile
    \/ NoChange

Spec == Init /\ [][Next]_vars

\* the Row extraction and the two synthesis passes on one circular table
InitSynth == file \in SynthDocs /\ DbIdle /\ codex = <<>> /\ MdIdle /\ CrIdle

NextSynth ==
    \/ ReadFile
    \/ ParseRows
    \/ InsertPass
    \/ UpdatePass

SpecSynth == InitSynth /\ [][NextSynth]_vars

\* strip_code_blocks.py on a markdown document
InitStrip == codex \in MdDocs /\ MdIdle /\ file = NoDoc /\ DbIdle /\ CrIdle

NextStrip ==
    \/ ReadLines
    \/ OpenFence
    \/ CloseFence
    \/ BufferLine
    \/ KeepLine
    \/ WriteLines

SpecStrip == InitStrip /\ [][NextStrip]_vars

\* replace-cred-ids.py on the files of the template directories
InitCred ==
    /\ templates \in TemplateSets
    /\ fidx = 1
    /\ total_replacements = 0
    /\ written = <<>>
    /\ cpc = "loop"
    /\ file = NoDoc /\ DbIdle /\ codex = <<>> /\ MdIdle

NextCred ==
    \/ SkipFile
    \/ NoMappedId
    \/ InvalidJson
    \/ WriteTemplate
    \/ Summary

SpecCred == InitCred /\ [][NextCred]_vars

---------------------------------------------------------------------------
(* Properties of the Insert and Update synthesis (SpecSynth) *)

Tables == DOMAIN content.tables

InsertPassDone == run = 1 /\ pc \in {"update", "rel", "write", "done"}

UpdatePassDone == run = 1 /\ pc \in {"rel", "write", "done"}

\* the circular Insert of table i names a table of the Row mapping
InsertSynthesized(i) ==
    /\ InsertMatches(original_content.tables[i].insert)
    /\ original_content.tables[i].insert.table \in DOMAIN row_fields

UpdateSynthesized(i) ==
    /\ UpdateMatches(original_content.tables[i].update)
    /\ original_content.tables[i].update.table \in DOMAIN row_fields

OmitSetOf(i) ==
    {original_content.tables[i].insert.omit[k] :
        k \in DOMAIN original_content.tables[i].insert.omit}

OverrideMapOf(i) == ParseOverrides(original_content.tables[i].insert.over)

RowMappingOf(i) == row_fields[original_content.tables[i].insert.table]

LinesNamed(ls, name) == {j \in DOMAIN ls : ls[j].name = name}

NullTokens == {"null", "Null", "NULL"}

ContainsNull(typ) == \E j \in DOMAIN typ : typ[j] \in NullTokens

\* the line the four rules of the Insert synthesis choose for Row field f
RuleLine(f, OmitSet, OverrideMap) ==
    IF f.name \in OmitSet
    THEN [name |-> f.name, opt |-> TRUE, typ |-> f.typ]
    ELSE IF DictHas(OverrideMap, <<f.name>>)
    THEN [name |-> f.name, opt |-> TRUE, typ |-> DictGet(OverrideMap, <<f.name>>)]
    ELSE IF ContainsNull(f.typ)
    THEN [name |-> f.name, opt |-> TRUE, typ |-> f.typ]
    ELSE [name |-> f.name, opt |-> FALSE, typ |-> f.typ]

\* C1: for every table with a Row mapping and every field f of that mapping,
\* the synthesized Insert type has exactly one line for f, and it is the line
\* chosen by the first applicable rule: OmitSet -> optional with the Row
\* type; OverrideMap -> optional with the override type; Row type containing
\* null (any case) -> optional with the Row type; otherwise required.
C1_InsertRuleOrder ==
    InsertPassDone =>
        \A i \in Tables : InsertSynthesized(i) =>
            LET out == content.tables[i].insert
                fields == RowMappingOf(i)
            IN  /\ out.kind = "flat"
                /\ \A k \in DOMAIN fields :
                     /\ Cardinality(LinesNamed(out.lines, fields[k].name)) = 1
                     /\ \A j \in LinesNamed(out.lines, fields[k].name) :
                          out.lines[j] = RuleLine(fields[k], OmitSetOf(i), OverrideMapOf(i))

\* Row {id: string; name: Json | NULL}, no Omit name, & {id?: number;}:
\* rule 2 gives `id?: number`, rule 3 gives `name?: Json | NULL`
C1_Witness ==
    /\ InsertPassDone
    /\ InsertSynthesized(1)
    /\ OmitSetOf(1) = {}
    /\ content.tables[1].insert.lines =
         << [name |-> "id", opt |-> TRUE, typ |-> <<"number">>],
            [name |-> "name", opt |-> TRUE, typ |-> <<"Json", "|", "NULL">>] >>

\* C2: for every table with a Row mapping the synthesized Update type has as
\* many fields as the Row mapping, each one optional with its Row type.
C2_UpdateAllOptional ==
    UpdatePassDone =>
        \A i \in Tables : UpdateSynthesized(i) =>
            LET out == content.tables[i].update
                fields == row_fields[original_content.tables[i].update.table]
            IN  /\ out.kind = "flat"
                /\ Len(out.lines) = Len(fields)
                /\ \A k \in DOMAIN fields :
                     \E j \in DOMAIN out.lines :
                        out.lines[j] = [name |-> fields[k].name, opt |-> TRUE,
                                        typ |-> fields[k].typ]
                /\ \A j \in DOMAIN out.lines : out.lines[j].opt

\* two Row fields, neither nullable, both optional in the Update type
C2_Witness ==
    /\ UpdatePassDone
    /\ UpdateSynthesized(1)
    /\ Len(content.tables[1].update.lines) = 2
    /\ \A j \in DOMAIN content.tables[1].update.lines :
         /\ content.tables[1].update.lines[j].opt
         /\ ~ContainsNull(content.tables[1].update.lines[j].typ)
    /\ content.tables[1].update.lines[1].name # content.tables[1].update.lines[2].name

\* C3 as stated: every name of the OmitSet appears in the synthesized Insert
\* type, marked optional.
C3_EveryOmittedNameEmitted ==
    InsertPassDone =>
        \A i \in Tables : InsertSynthesized(i) =>
            \A n \in OmitSetOf(i) :
                \E j \in DOMAIN content.tables[i].insert.lines :
                    /\ content.tables[i].insert.lines[j].name = n
                    /\ content.tables[i].insert.lines[j].opt

\* C3 amended: every name of the OmitSet that is a field of the table's Row
\* mapping appears in the synthesized Insert type, marked optional.
C3_OmittedRowFieldsOptional ==
    InsertPassDone =>
        \A i \in Tables : InsertSynthesized(i) =>
            \A n \in OmitSetOf(i) : DictHas(RowMappingOf(i), n) =>
                /\ LinesNamed(content.tables[i].insert.lines, n) # {}
                /\ \A j \in LinesNamed(content.tables[i].insert.lines, n) :
                     content.tables[i].insert.lines[j].opt

\* two omitted Row fields, neither nullable nor overridden, both optional
C3_Witness ==
    /\ InsertPassDone
    /\ InsertSynthesized(1)
    /\ OmitSetOf(1) = {"id", "name"}
    /\ OverrideMapOf(1) = <<>>
    /\ content.tables[1].insert.lines =
         << [name |-> "name", opt |-> TRUE, typ |-> <<"string">>],
            [name |-> "id", opt |-> TRUE, typ |-> <<"string">>] >>

\* C4: for every field listed in the OverrideMap, the type emitted in the
\* synthesized Insert type is the override type, also when the field is
\* listed in the OmitSet.
C4_OverrideTypeWins ==
    InsertPassDone =>
        \A i \in Tables : InsertSynthesized(i) =>
            \A j \in DOMAIN content.tables[i].insert.lines :
                LET l == content.tables[i].insert.lines[j]
                IN  DictHas(OverrideMapOf(i), <<l.name>>) =>
                        l.typ = DictGet(OverrideMapOf(i), <<l.name>>)

\* C8: every field name of a synthesized Insert or Update type is a key of
\* the table's Row mapping; names of the OmitSet or OverrideMap that are no
\* Row field add nothing.
C8_OnlyRowFields ==
    UpdatePassDone =>
        \A i \in Tables :
            /\ InsertSynthesized(i) =>
                 \A j \in DOMAIN content.tables[i].insert.lines :
                    DictHas(RowMappingOf(i), content.tables[i].insert.lines[j].name)
            /\ UpdateSynthesized(i) =>
                 \A j \in DOMAIN content.tables[i].update.lines :
                    DictHas(row_fields[original_content.tables[i].update.table],
                            content.tables[i].update.lines[j].name)

\* the Omit list and the literal both name `name`, the Row block has only `id`
C8_Witness ==
    /\ UpdatePassDone
    /\ InsertSynthesized(1)
    /\ UpdateSynthesized(1)
    /\ DictKeys(RowMappingOf(1)) = <<"id">>
    /\ "name" \in OmitSetOf(1)
    /\ DictHas(OverrideMapOf(1), <<"name">>)
    /\ Len(content.tables[1].insert.lines) = 1
    /\ Len(content.tables[1].update.lines) = 1

\* the field names of the lines of a Row block, each once, in order of first
\* appearance
RECURSIVE DeclaredNames(_, _)
DeclaredNames(decl, seen) ==
    IF decl = <<>> THEN seen
    ELSE LET line == Head(decl)
         IN  IF Len(line) >= 3 /\ line[2] = ":" /\ line[1] \notin Range(seen)
             THEN DeclaredNames(Tail(decl), Append(seen, line[1]))
             ELSE DeclaredNames(Tail(decl), seen)

\* C9: the field names of the synthesized Insert type and of the synthesized
\* Update type are the field names of the Row declaration, in declaration
\* order and each once, whatever the order of the OmitSet and OverrideMap.
C9_DeclarationOrder ==
    UpdatePassDone =>
        \A i \in Tables : (InsertSynthesized(i) /\ UpdateSynthesized(i)) =>
            LET names == DeclaredNames(original_content.tables[i].row.decl, <<>>)
            IN  /\ DictKeys(content.tables[i].insert.lines) = names
                /\ DictKeys(content.tables[i].update.lines) = names

\* Row declares name before id, the Omit list names id before name
C9_Witness ==
    /\ UpdatePassDone
    /\ InsertSynthesized(1)
    /\ original_content.tables[1].insert.omit = <<"id", "name">>
    /\ DictKeys(content.tables[1].insert.lines) = <<"name", "id">>
    /\ DictKeys(content.tables[1].update.lines) = <<"name", "id">>

---------------------------------------------------------------------------
(* Properties of the whole transform (Spec) *)

TransformDone == pc \in {"write", "done"}

InsertSkipped(i) ==
    /\ original_content.tables[i].insert.kind = "Omit"
    /\ original_content.tables[i].insert.table \notin DOMAIN row_fields

UpdateSkipped(i) ==
    /\ original_content.tables[i].update.kind = "Partial"
    /\ original_content.tables[i].update.table \notin DOMAIN row_fields

\* C5: a circular Insert or Update declaration that names a table without a
\* Row mapping is, after the whole transform, identical to the declaration of
\* the input, in memory and on disk; no flat block takes its place.
C5_SafeSkip ==
    TransformDone =>
        \A i \in Tables :
            /\ Len(content.tables) = Len(original_content.tables)
            /\ InsertSkipped(i) =>
                 /\ content.tables[i].insert = original_content.tables[i].insert
                 /\ pc = "done" => file.tables[i].insert = original_content.tables[i].insert
            /\ UpdateSkipped(i) =>
                 /\ content.tables[i].update = original_content.tables[i].update
                 /\ pc = "done" => file.tables[i].update = original_content.tables[i].update

\* the first table is skipped, the second one is synthesized and the file is
\* rewritten
C5_Witness ==
    /\ pc = "done"
    /\ run = 1
    /\ writes = 1
    /\ Len(content.tables) = 2
    /\ InsertSkipped(1)
    /\ UpdateSkipped(1)
    /\ file.tables[1].update.kind = "Partial"
    /\ original_content.tables[2].update.kind = "Partial"
    /\ file.tables[2].update.kind = "flat"

AlreadyFlat(doc) ==
    \A i \in DOMAIN doc.tables :
        doc.tables[i].insert.kind = "flat" /\ doc.tables[i].update.kind = "flat"

\* a flat Update block without marker, followed by the boundary of one of
\* the two patterns
MarkerMissingAtBoundary(doc, i) ==
    /\ doc.tables[i].update.kind = "flat"
    /\ doc.tables[i].rels = 0
    /\ \/ i < Len(doc.tables)
       \/ doc.next \in {"Functions:", "Views:"}

\* C6 as stated: the transform applied to an already flattened document (no
\* circular declaration left) produces a document equal to its input.
C6_FlatDocumentUnchanged ==
    (pc = "done" /\ AlreadyFlat(original_content)) => content = original_content

\* C6 amended: the transform applied to its own output produces a document
\* equal to its input and does not rewrite the file; an already flattened
\* document is left unchanged when none of its flat Update blocks lacks the
\* marker at a boundary the two patterns match.
C6_OwnOutputUnchanged ==
    /\ (run >= 2 /\ TransformDone) =>
          /\ content = original_content
          /\ file = original_content
          /\ writes <= 1
    /\ (TransformDone /\ AlreadyFlat(original_content)
          /\ \A i \in DOMAIN original_content.tables :
                ~MarkerMissingAtBoundary(original_content, i)) =>
          content = original_content

\* the first run rewrote the file, the second run has ended without writing
C6_Witness ==
    /\ run = 2
    /\ pc = "done"
    /\ writes = 1
    /\ content = file
    /\ \E i \in Tables : content.tables[i].rels = 1

\* C7: after the transform every table whose Update block is flat carries a
\* Relationships marker between its Update block and its closing brace,
\* whether another table follows or the table is the last of its group.
C7_EveryFlatTableMarked ==
    pc = "done" =>
        \A i \in Tables :
            content.tables[i].update.kind = "flat" => content.tables[i].rels >= 1

---------------------------------------------------------------------------
(* Properties of strip_code_blocks (SpecStrip) *)

\* the opening line of the block that is open after line i, 0 when none is
RECURSIVE OpenAfter(_, _)
OpenAfter(ls, i) ==
    IF i = 0 THEN 0
    ELSE LET before == OpenAfter(ls, i - 1)
             trimmed == Strip(ls[i])
         IN  IF before = 0
             THEN IF trimmed # <<>> /\ trimmed[1] = "FENCE" THEN i ELSE 0
             ELSE IF trimmed = <<"FENCE">> THEN 0 ELSE before

\* the opening line of the fenced block line i belongs to, 0 for a line
\* outside every block
BlockOf(ls, i) == IF OpenAfter(ls, i - 1) # 0 THEN OpenAfter(ls, i - 1) ELSE OpenAfter(ls, i)

\* the tag of an opening line, trimmed and lower-cased, is in the remove set
TypedOpening(ls, o) ==
    LET tag == Strip(Tail(Strip(ls[o])))
    IN  [k \in DOMAIN tag |->
            CASE tag[k] = "SQL" -> "sql" [] tag[k] = "Bash" -> "bash" [] OTHER -> tag[k]]
        \in remove_langs

\* C10: of every fenced block whose opening line carries a tag of the remove
\* set, the opening fence, the lines of the block and the closing fence are
\* absent from the output.
C10_TypedBlocksRemoved ==
    spc = "done" =>
        /\ Len(codex) = Len(kept)
        /\ \A k \in DOMAIN kept : codex[k] = lines[kept[k]]
        /\ \A i \in DOMAIN lines :
             (BlockOf(lines, i) # 0 /\ TypedOpening(lines, BlockOf(lines, i))) =>
                 \A k \in DOMAIN kept : kept[k] # i

\* a block opened by an upper-case tag between blanks, with one line and its
\* closing fence, is dropped; the text line after it is kept
C10_Witness ==
    /\ spc = "done"
    /\ lines = << <<"FENCE", " ", "Bash", " ">>, <<"text">>, <<" ", "FENCE", " ">>, <<"text">> >>
    /\ codex = << <<"text">> >>
    /\ kept = <<4>>

\* line i belongs to a fenced block whose opening line has a remove-set tag
InTypedBlock(ls, i) == BlockOf(ls, i) # 0 /\ TypedOpening(ls, BlockOf(ls, i))

\* C11: every line that does not belong to a fenced block with a remove-set
\* tag (text lines, and the fences and lines of untagged or other-tagged
\* blocks) is in the output, unmodified and in its original order, also when
\* the last fenced block has no closing fence before the end of the file.
C11_OtherLinesPreserved ==
    spc = "done" =>
        /\ Len(codex) = Len(kept)
        /\ \A k \in DOMAIN kept : codex[k] = lines[kept[k]]
        /\ \A k1, k2 \in DOMAIN kept : k1 < k2 => kept[k1] < kept[k2]
        /\ \A i \in DOMAIN lines :
             ~InTypedBlock(lines, i) => \E k \in DOMAIN kept : kept[k] = i

---------------------------------------------------------------------------
(* Termination of the relationships loop (Spec) *)

\* the boundaries relationships_pattern can match: a flat Update block
\* without marker, the closing brace of its table, the name of the next table
Matchable(doc) ==
    Cardinality({i \in DOMAIN doc.tables :
                    /\ doc.tables[i].update.kind = "flat"
                    /\ doc.tables[i].rels = 0
                    /\ i < Len(doc.tables)})

\* C12: the loop `while prev_content != content` terminates: a pass that
\* inserts a marker strictly lowers the number of matchable boundaries, a
\* pass that inserts nothing leaves prev_content = content, which ends the
\* loop, and the number of passes never exceeds the number of boundaries a
\* document of that many tables can have, plus one.
C12_LoopTerminates ==
    /\ [](pc \in {"rel", "write", "done"} => passes <= Len(content.tables))
    /\ [][(pc = "rel" /\ pc' = "rel") =>
            IF content' = content
            THEN prev_content' = content'
            ELSE Matchable(content') < Matchable(content)]_vars

\* the first pass put a marker on the first table, the second pass inserted
\* nothing and the loop has ended
C12_Witness ==
    /\ pc = "write"
    /\ passes = 2
    /\ prev_content = content
    /\ original_content.tables[1].rels = 0
    /\ content.tables[1].rels = 1

---------------------------------------------------------------------------
(* Properties of replace-cred-ids (SpecCred) *)

MappedIds == {CREDENTIAL_ID_MAP[k].old_id : k \in DOMAIN CREDENTIAL_ID_MAP}

\* the occurrences of mapped credential IDs in a text
MappedIn(text) == Cardinality({k \in DOMAIN text : text[k] \in MappedIds})

\* C13: a template file is overwritten only when at least one mapped ID was
\* replaced and the replaced content parses as JSON; when it does not parse,
\* the file on disk stays as it is, its replacements are not added to
\* total_replacements and the loop goes on with the next file; a file
\* without mapped ID is never written.
C13_WriteOnlyValidated ==
    [][InFileLoop =>
        LET f == templates[fidx]
            replaced == ReplaceIds(f.data).content
        IN  /\ (written' # written \/ templates' # templates) =>
                  /\ f.json
                  /\ MappedIn(f.data) >= 1
                  /\ JsonLoads(replaced)
                  /\ written' = Append(written, fidx)
                  /\ templates' = [templates EXCEPT ![fidx].data = replaced]
                  /\ total_replacements' = total_replacements + MappedIn(f.data)
            /\ (f.json /\ MappedIn(f.data) >= 1 /\ ~JsonLoads(replaced)) =>
                  /\ templates' = templates
                  /\ written' = written
                  /\ total_replacements' = total_replacements
                  /\ fidx' = fidx + 1
                  /\ cpc' = "loop"
            /\ MappedIn(f.data) = 0 =>
                  /\ templates' = templates
                  /\ written' = written
                  /\ total_replacements' = total_replacements]_vars

\* the first file holds a mapped ID but is cut before its closing brace: it
\* still holds the ID; the second file was replaced, written and counted
C13_Witness ==
    /\ cpc = "done"
    /\ templates =
         << [json |-> TRUE, data |-> <<"{", "kThf5Npwf1zJFn9l">>],
            [json |-> TRUE, data |-> <<"{", "YOUR_CREDENTIAL_POSTGRES_ID", "}">>] >>
    /\ written = <<2>>
    /\ total_replacements = 1

====
